---- MODULE Spec2Model ----
(***************************************************************************)
(* Model of the client-side consultation session of ArogoBhashini:         *)
(* the ChatInterface component (WebSocket channel, message log, audio      *)
(* playback, voice capture with silence detection) and the preference      *)
(* handlers of ChatInterface and ConsultationPage.                         *)
(*                                                                         *)
(* The session variables and the preference variables are written by       *)
(* disjoint sets of handlers, so they are explored by separate             *)
(* specifications (SpecChannel, SpecVoice, SpecPrefs) over the same Init.  *)
(***************************************************************************)
EXTENDS Integers, Sequences, FiniteSets, TLC

(***************************************************************************)
(* Bounds of the exploration                                               *)
(***************************************************************************)
MaxConn == 2
MaxTraffic == 2
MaxRec == 2
MaxTime == 4000
TickMs == 2000

\* requests of the consultation slice in flight at a time
MaxRequests == 4

(***************************************************************************)
(* Program constants                                                       *)
(***************************************************************************)
minRecordingDuration == 2000
silenceDelay == 3000

VARIABLES
  mounted,          \* ChatInterface is mounted
  conn,             \* readyState of every WebSocket created by the effect
  wsInstance,       \* useState wsInstance (0 = null)
  messages,         \* useState messages
  wsError,          \* useState wsError
  inputMessage,     \* useState inputMessage
  selectedLanguage, \* useState selectedLanguage
  wire,             \* frames actually transmitted, per connection
  audios,           \* state of every Audio element created by onmessage
  audioPlayerRef,   \* audioPlayerRef.current (0 = null)
  delivered,        \* history: frames handed to ws.onmessage, in order
  lastSend,         \* history: outcome of the last handleSendMessage call
  now,              \* Date.now()
  pendingMic,       \* getUserMedia calls not yet settled
  recorders,        \* every MediaRecorder created by startRecording
  mediaRecorderRef, \* mediaRecorderRef.current (0 = null)
  streams,          \* microphone streams acquired and not released
  detectors,        \* audio graph built by every detectSilence call
  isRecording,      \* useState isRecording
  isProcessing,     \* useState isProcessing
  uploads,          \* speech-to-text requests in flight
  autoStops,        \* history: every onSilence invocation
  lastStt,          \* history: the last speech-to-text outcome handled
  showOriginal,     \* the message bubbles whose useState showOriginal is true
  storage,          \* localStorage['userLanguagePreferences']
  pageSettings,     \* ConsultationPage useState settings
  chatSettings,     \* ChatInterface useState settings
  lastUpdate,       \* history: the last preference update made by a handler
  acPlaying,        \* AudioControls useState isPlaying
  acElement,        \* AudioControls audioRef.current: paused, playing or ended
  acCurrentTime,    \* AudioControls useState currentTime
  acVolume,         \* AudioControls useState volume
  acSpeed,          \* AudioControls useState playbackSpeed
  acUnhandled,      \* history: a rejected play() promise had no handler
  storedId,         \* localStorage['consultationId'] (0 = none)
  routeId,          \* :consultationId of the protected route shown (0 = home)
  isChecking,       \* ProtectedRoute useState isChecking
  pendingQuery,     \* id of the status query ProtectedRoute awaits (0 = none)
  activeSeen,       \* history: ids for which a status query returned active
  lastCheck,        \* history: outcome of the last status query handled
  loading,          \* consultation slice: state.loading
  sliceStatus,      \* consultation slice: state.status
  sliceError,       \* consultation slice: state.error
  inflight          \* thunks dispatched and not yet settled, per thunk

sessionVars ==
  <<mounted, conn, wsInstance, messages, wsError, inputMessage,
    selectedLanguage, wire, audios, audioPlayerRef, delivered, lastSend,
    now, pendingMic, recorders, mediaRecorderRef, streams, detectors,
    isRecording, isProcessing, uploads, autoStops, lastStt, showOriginal>>

prefVars ==
  <<storage, pageSettings, chatSettings, lastUpdate>>

controlVars ==
  <<acPlaying, acElement, acCurrentTime, acVolume, acSpeed, acUnhandled>>

routeVars ==
  <<storedId, routeId, isChecking, pendingQuery, activeSeen, lastCheck>>

sliceVars ==
  <<loading, sliceStatus, sliceError, inflight>>

shellVars ==
  <<controlVars, routeVars, sliceVars>>

vars ==
  <<mounted, conn, wsInstance, messages, wsError, inputMessage,
    selectedLanguage, wire, audios, audioPlayerRef, delivered, lastSend,
    now, pendingMic, recorders, mediaRecorderRef, streams, detectors,
    isRecording, isProcessing, uploads, autoStops, lastStt, showOriginal,
    storage, pageSettings, chatSettings, lastUpdate,
    acPlaying, acElement, acCurrentTime, acVolume, acSpeed, acUnhandled,
    storedId, routeId, isChecking, pendingQuery, activeSeen, lastCheck,
    loading, sliceStatus, sliceError, inflight>>

(***************************************************************************)
(* JavaScript values                                                       *)
(***************************************************************************)
\* undefined / null / '' are all falsy; the model writes them as "".
Undef == ""

Truthy(v) ==
  v # ""

\* a || b
OrElse(a, b) ==
  IF Truthy(a) THEN a ELSE b

\* String.prototype.trim on the texts the model types or receives
Texts == {"", " ", " hi "}

trim(t) ==
  CASE t = " " -> ""
    [] t = " hi " -> "hi"
    [] OTHER -> t

(***************************************************************************)
(* Conversation store                                                      *)
(***************************************************************************)
\* the single entry the messages state is constructed with
InitialMessages ==
  << [type |-> "", content |-> "", originalContent |-> "",
      translatedContent |-> "", langSource |-> "", langTarget |-> "",
      timestamp |-> 0, audio |-> "",
      analysis |-> [isNull |-> FALSE, requiresEmergency |-> "false"]] >>

\* frames the server can put on the channel (event.data), parsed
InboundEvents ==
  { [parse |-> "ok", type |-> "bot", content |-> "take rest",
     original_message |-> "take rest", translated_message |-> "",
     langSource |-> "en", langTarget |-> "en", timestamp |-> 7,
     audio |-> "", requires_emergency |-> "false"],
    [parse |-> "ok", type |-> "", content |-> "call a doctor",
     original_message |-> "doctor ko bulao", translated_message |-> "call a doctor",
     langSource |-> "hi", langTarget |-> "en", timestamp |-> 0,
     audio |-> "mp3", requires_emergency |-> "true"],
    [parse |-> "ok", type |-> "error", content |-> "server failure",
     original_message |-> "", translated_message |-> "",
     langSource |-> "", langTarget |-> "", timestamp |-> 0,
     audio |-> "", requires_emergency |-> ""],
    [parse |-> "throws", type |-> "", content |-> "",
     original_message |-> "", translated_message |-> "",
     langSource |-> "", langTarget |-> "", timestamp |-> 0,
     audio |-> "", requires_emergency |-> ""] }

\* the object literal ws.onmessage appends for a parsed, non-error frame
MessageOfEvent(data, t) ==
  [type |-> OrElse(data.type, "bot"),
   content |-> data.content,
   originalContent |-> data.original_message,
   translatedContent |-> data.translated_message,
   langSource |-> data.langSource,
   langTarget |-> data.langTarget,
   timestamp |-> IF data.timestamp # 0 THEN data.timestamp ELSE t,
   audio |-> data.audio,
   analysis |-> [isNull |-> FALSE, requiresEmergency |-> data.requires_emergency]]

\* the object literal handleSendMessage appends
UserMessage(text, lang, t) ==
  [type |-> "user",
   content |-> trim(text),
   originalContent |-> Undef,
   translatedContent |-> Undef,
   langSource |-> lang,
   langTarget |-> lang,
   timestamp |-> t,
   audio |-> Undef,
   analysis |-> [isNull |-> TRUE, requiresEmergency |-> Undef]]


(***************************************************************************)
(* Channel: the WebSocket effect of ChatInterface                          *)
(***************************************************************************)
\* useState voicePreferences; setVoicePreferences is never called
voicePreferences ==
  [enabled |-> TRUE, gender |-> "female", speed |-> 1]

\* useState showOriginalText; setShowOriginalText is never called
showOriginalText ==
  FALSE

\* useState autoDetectLanguage; setAutoDetectLanguage is never called
autoDetectLanguage ==
  TRUE

\* useState connectionStatus; setConnectionStatus is never called
connectionStatus ==
  "connecting"

\* a state setter called on an unmounted component changes nothing
SetState(old, new) ==
  IF mounted THEN new ELSE old

\* WebSocket.close(): CONNECTING and OPEN become CLOSING
CloseWs(readyState) ==
  IF readyState \in {"connecting", "open"} THEN "closing" ELSE readyState

\* WebSocket.send(): throws in CONNECTING, transmits in OPEN, and discards
\* the data without throwing in CLOSING and CLOSED
SendOutcome(readyState) ==
  CASE readyState = "connecting" -> "throws"
    [] readyState = "open" -> "sent"
    [] OTHER -> "dropped"

\* the ws captured by the effect that ran last
EffectWs ==
  Len(conn)

\* effect cleanup, first statement: audioPlayerRef.current.pause()
CleanupAudio(as, ref) ==
  IF ref # 0 /\ as[ref] = "playing" THEN [as EXCEPT ![ref] = "paused"] ELSE as

\* a cleanup that leaves the effect's connection as it is
CleanupWsNoClose(cs) ==
  cs

\* effect cleanup, second statement: ws.close()
CleanupWs(cs) ==
  [cs EXCEPT ![Len(cs)] = CloseWs(@)]

\* the outbound frame built by handleSendMessage
OutboundMessage(text, lang) ==
  [type |-> "message", content |-> trim(text), source |-> lang,
   autoDetect |-> autoDetectLanguage, voice |-> voicePreferences,
   showOriginalText |-> showOriginalText]

\* ws.onopen
WsOpen(c) ==
  /\ conn[c] = "connecting"
  /\ conn' = [conn EXCEPT ![c] = "open"]
  /\ wsError' = SetState(wsError, "")
  /\ UNCHANGED <<prefVars, shellVars, mounted, wsInstance, messages, inputMessage, selectedLanguage,
                 wire, audios, audioPlayerRef, delivered, lastSend, now,
                 pendingMic, recorders, mediaRecorderRef, streams, detectors,
                 isRecording, isProcessing, uploads, autoStops, lastStt, showOriginal>>

\* the audio branch of ws.onmessage: new Audio, audioPlayerRef.current = audio,
\* await audio.play() (which the platform may reject)
StartPlayback(as, playOk) ==
  Append(as, IF playOk THEN "playing" ELSE "blocked")

\* ws.onmessage with the type check of its first statement left out
OnMessageBranchNoErrorCheck(data) ==
  IF data.parse = "throws" THEN "catch" ELSE "append"

\* ws.onmessage falling back to an empty object when the frame does not parse
OnMessageBranchParseFallback(data) ==
  IF data.parse = "ok" /\ data.type = "error" THEN "error" ELSE "append"

\* the path ws.onmessage takes for a frame: the catch block when JSON.parse
\* throws (or yields null, so that reading data.type throws), the early
\* return for type "error", the append otherwise
OnMessageBranch(data) ==
  CASE data.parse = "throws" -> "catch"
    [] data.type = "error" -> "error"
    [] OTHER -> "append"

\* ws.onmessage; the platform hands a frame over only while readyState is OPEN
WsMessage(c, data, playOk) ==
  /\ conn[c] = "open"
  /\ Len(delivered) + lastSend.n < MaxTraffic
  /\ delivered' = Append(delivered, [data |-> data, ws |-> c, effectWs |-> EffectWs])
  /\ IF OnMessageBranch(data) = "catch"
       THEN /\ wsError' = SetState(wsError, "Error processing message")
            /\ UNCHANGED <<messages, audios, audioPlayerRef>>
       ELSE IF OnMessageBranch(data) = "error"
         THEN /\ wsError' = SetState(wsError, data.content)
              /\ UNCHANGED <<messages, audios, audioPlayerRef>>
         ELSE /\ messages' = SetState(messages, Append(messages, MessageOfEvent(data, now)))
              /\ IF Truthy(data.audio) /\ voicePreferences.enabled
                   THEN /\ audios' = StartPlayback(audios, playOk)
                        /\ audioPlayerRef' = Len(audios) + 1
                   ELSE /\ playOk
                        /\ UNCHANGED <<audios, audioPlayerRef>>
              /\ UNCHANGED wsError
  /\ UNCHANGED <<prefVars, shellVars, mounted, conn, wsInstance, inputMessage, selectedLanguage,
                 wire, lastSend, now, pendingMic, recorders, mediaRecorderRef,
                 streams, detectors, isRecording, isProcessing, uploads,
                 autoStops, lastStt, showOriginal>>

\* the audio element reaches the end of its stream
AudioEnded(a) ==
  /\ audios[a] = "playing"
  /\ audios' = [audios EXCEPT ![a] = "ended"]
  /\ UNCHANGED <<prefVars, shellVars, mounted, conn, wsInstance, messages, wsError, inputMessage,
                 selectedLanguage, wire, audioPlayerRef, delivered, lastSend,
                 now, pendingMic, recorders, mediaRecorderRef, streams,
                 detectors, isRecording, isProcessing, uploads, autoStops, lastStt, showOriginal>>

\* transport fault: readyState becomes CLOSED, ws.onerror then ws.onclose run
WsFail(c) ==
  /\ conn[c] \in {"connecting", "open"}
  /\ conn' = [conn EXCEPT ![c] = "closed"]
  /\ wsError' = SetState(SetState(wsError, "Connection error occurred"),
                         "Connection closed. Please refresh the page.")
  /\ UNCHANGED <<prefVars, shellVars, mounted, wsInstance, messages, inputMessage, selectedLanguage,
                 wire, audios, audioPlayerRef, delivered, lastSend, now,
                 pendingMic, recorders, mediaRecorderRef, streams, detectors,
                 isRecording, isProcessing, uploads, autoStops, lastStt, showOriginal>>

\* the closing handshake completes or the server closes: ws.onclose
WsClose(c) ==
  /\ conn[c] \in {"open", "closing"}
  /\ conn' = [conn EXCEPT ![c] = "closed"]
  /\ wsError' = SetState(wsError, "Connection closed. Please refresh the page.")
  /\ UNCHANGED <<prefVars, shellVars, mounted, wsInstance, messages, inputMessage, selectedLanguage,
                 wire, audios, audioPlayerRef, delivered, lastSend, now,
                 pendingMic, recorders, mediaRecorderRef, streams, detectors,
                 isRecording, isProcessing, uploads, autoStops, lastStt, showOriginal>>

\* consultationId changes: the effect's cleanup runs, then the effect again
EffectRerun ==
  /\ mounted
  /\ Len(conn) < MaxConn
  /\ audios' = CleanupAudio(audios, audioPlayerRef)
  /\ conn' = Append(CleanupWs(conn), "connecting")
  /\ wire' = Append(wire, << >>)
  /\ wsInstance' = Len(conn) + 1
  /\ UNCHANGED <<prefVars, shellVars, mounted, messages, wsError, inputMessage, selectedLanguage,
                 audioPlayerRef, delivered, lastSend, now, pendingMic,
                 recorders, mediaRecorderRef, streams, detectors, isRecording,
                 isProcessing, uploads, autoStops, lastStt, showOriginal>>

\* the component is torn down: the effect's cleanup runs
Unmount ==
  /\ mounted
  /\ mounted' = FALSE
  /\ audios' = CleanupAudio(audios, audioPlayerRef)
  /\ conn' = CleanupWs(conn)
  /\ UNCHANGED <<prefVars, shellVars, wsInstance, messages, wsError, inputMessage, selectedLanguage,
                 wire, audioPlayerRef, delivered, lastSend, now, pendingMic,
                 recorders, mediaRecorderRef, streams, detectors, isRecording,
                 isProcessing, uploads, autoStops, lastStt, showOriginal>>

\* Alert onClose
DismissError ==
  /\ mounted
  /\ wsError # ""
  /\ wsError' = ""
  /\ UNCHANGED <<prefVars, shellVars, mounted, conn, wsInstance, messages, inputMessage,
                 selectedLanguage, wire, audios, audioPlayerRef, delivered,
                 lastSend, now, pendingMic, recorders, mediaRecorderRef,
                 streams, detectors, isRecording, isProcessing, uploads,
                 autoStops, lastStt, showOriginal>>

\* TextField onChange (the field is disabled while recording or processing)
TypeInput(t) ==
  /\ mounted
  /\ ~isRecording /\ ~isProcessing
  /\ t # inputMessage
  /\ inputMessage' = t
  /\ UNCHANGED <<prefVars, shellVars, mounted, conn, wsInstance, messages, wsError,
                 selectedLanguage, wire, audios, audioPlayerRef, delivered,
                 lastSend, now, pendingMic, recorders, mediaRecorderRef,
                 streams, detectors, isRecording, isProcessing, uploads,
                 autoStops, lastStt, showOriginal>>

\* handleSendMessage with the two statements of its try block exchanged:
\* the entry is appended only after wsInstance.send returned
HandleSendMessageSendFirst(text, wsI, lang) ==
  LET outcome == SendOutcome(conn[wsI]) IN
  /\ Len(delivered) + lastSend.n < MaxTraffic
  /\ messages' = IF outcome = "throws" THEN messages
                  ELSE SetState(messages, Append(messages, UserMessage(text, lang, now)))
  /\ wire' = IF outcome = "sent"
               THEN [wire EXCEPT ![wsI] = Append(@, OutboundMessage(text, lang))]
               ELSE wire
  /\ inputMessage' = IF outcome = "throws" THEN inputMessage
                     ELSE SetState(inputMessage, "")
  /\ wsError' = IF outcome = "throws" THEN SetState(wsError, "Failed to send message")
                ELSE wsError
  /\ lastSend' = [n |-> lastSend.n + 1, readyState |-> conn[wsI],
                  eventsBefore |-> Len(delivered),
                  transmitted |-> outcome = "sent",
                  threw |-> outcome = "throws",
                  errorShown |-> wsError' # "",
                  text |-> text, ws |-> wsI, lang |-> lang,
                  currentWs |-> wsInstance, currentLang |-> selectedLanguage,
                  storeBefore |-> Len(messages), at |-> now]

\* handleSendMessage(text) past its early return, as run by a render whose
\* closure holds wsI and lang
HandleSendMessage(text, wsI, lang) ==
  LET outcome == SendOutcome(conn[wsI]) IN
  /\ Len(delivered) + lastSend.n < MaxTraffic
  /\ messages' = SetState(messages, Append(messages, UserMessage(text, lang, now)))
  /\ wire' = IF outcome = "sent"
               THEN [wire EXCEPT ![wsI] = Append(@, OutboundMessage(text, lang))]
               ELSE wire
  /\ inputMessage' = IF outcome = "throws" THEN inputMessage
                     ELSE SetState(inputMessage, "")
  /\ wsError' = IF outcome = "throws" THEN SetState(wsError, "Failed to send message")
                ELSE wsError
  /\ lastSend' = [n |-> lastSend.n + 1, readyState |-> conn[wsI],
                  eventsBefore |-> Len(delivered),
                  transmitted |-> outcome = "sent",
                  threw |-> outcome = "throws",
                  errorShown |-> wsError' # "",
                  text |-> text, ws |-> wsI, lang |-> lang,
                  currentWs |-> wsInstance, currentLang |-> selectedLanguage,
                  storeBefore |-> Len(messages), at |-> now]

\* send button onClick / Enter key: handleSendMessage()
SendTyped ==
  /\ mounted
  /\ ~isProcessing
  /\ trim(inputMessage) # ""
  /\ wsInstance # 0
  /\ HandleSendMessage(inputMessage, wsInstance, selectedLanguage)
  /\ UNCHANGED <<prefVars, shellVars, mounted, conn, wsInstance, selectedLanguage, audios,
                 audioPlayerRef, delivered, now, pendingMic, recorders,
                 mediaRecorderRef, streams, detectors, isRecording,
                 isProcessing, uploads, autoStops, lastStt, showOriginal>>

\* a toggle that writes the choice into the message entity
ToggleOriginalInEntity(i) ==
  /\ mounted
  /\ i <= Len(messages)
  /\ messages[i].originalContent # messages[i].content
  /\ messages' = [messages EXCEPT ![i].content = messages[i].originalContent,
                                  ![i].originalContent = messages[i].content]
  /\ showOriginal' = (showOriginal \ {i}) \cup ({i} \ showOriginal)
  /\ UNCHANGED <<prefVars, shellVars, mounted, conn, wsInstance, wsError, inputMessage,
                 selectedLanguage, wire, audios, audioPlayerRef, delivered,
                 lastSend, now, pendingMic, recorders, mediaRecorderRef,
                 streams, detectors, isRecording, isProcessing, uploads,
                 autoStops, lastStt>>

\* MessageBubble TranslationIndicator onToggle: setShowOriginal(!showOriginal);
\* the indicator is rendered when originalContent differs from content
ToggleOriginal(i) ==
  /\ mounted
  /\ i <= Len(messages)
  /\ messages[i].originalContent # messages[i].content
  /\ showOriginal' = (showOriginal \ {i}) \cup ({i} \ showOriginal)
  /\ UNCHANGED <<prefVars, shellVars, mounted, conn, wsInstance, messages, wsError, inputMessage,
                 selectedLanguage, wire, audios, audioPlayerRef, delivered,
                 lastSend, now, pendingMic, recorders, mediaRecorderRef,
                 streams, detectors, isRecording, isProcessing, uploads,
                 autoStops, lastStt>>

\* MessageBubble displayText
displayText(i) ==
  IF i \in showOriginal THEN messages[i].originalContent ELSE messages[i].content


(***************************************************************************)
(* Voice capture: startRecording, stopRecording, detectSilence             *)
(***************************************************************************)
\* number of startRecording calls made so far
Calls ==
  Len(recorders)

\* mic button onClick while isRecording is false: startRecording() reaches
\* await getUserMedia; the closure keeps the render's wsInstance and language
StartRecording ==
  /\ mounted
  /\ ~isRecording /\ ~isProcessing
  /\ Calls < MaxRec
  /\ recorders' = Append(recorders,
       [state |-> "acquiring", stopEvent |-> "none", ws |-> wsInstance,
        lang |-> selectedLanguage])
  /\ detectors' = Append(detectors,
       [ctx |-> "none", startTime |-> 0, lastSound |-> 0, heard |-> 0,
        microphone |-> FALSE, analyser |-> FALSE, scriptProcessor |-> FALSE])
  /\ pendingMic' = pendingMic \cup {Calls + 1}
  /\ UNCHANGED <<prefVars, shellVars, mounted, conn, wsInstance, messages, wsError, inputMessage,
                 selectedLanguage, wire, audios, audioPlayerRef, delivered,
                 lastSend, now, mediaRecorderRef, streams, isRecording,
                 isProcessing, uploads, autoStops, lastStt, showOriginal>>

\* detectSilence(stream, onSilence): the audio graph and the two timestamps
DetectSilence(t) ==
  [ctx |-> "running", startTime |-> t, lastSound |-> t, heard |-> t,
   microphone |-> TRUE, analyser |-> TRUE, scriptProcessor |-> TRUE]

\* getUserMedia resolves: the rest of startRecording's try block
MicGranted(k) ==
  /\ k \in pendingMic
  /\ pendingMic' = pendingMic \ {k}
  /\ streams' = streams \cup {k}
  /\ mediaRecorderRef' = k
  /\ recorders' = [recorders EXCEPT ![k].state = "recording"]
  /\ isRecording' = SetState(isRecording, TRUE)
  /\ detectors' = [detectors EXCEPT ![k] = DetectSilence(now)]
  /\ UNCHANGED <<prefVars, shellVars, mounted, conn, wsInstance, messages, wsError, inputMessage,
                 selectedLanguage, wire, audios, audioPlayerRef, delivered,
                 lastSend, now, isProcessing, uploads, autoStops, lastStt, showOriginal>>

\* startRecording's catch block without its setWsError
MicErrorSwallowed(e) ==
  e

\* startRecording's catch block: setWsError('Failed to access microphone: ...')
MicError(e) ==
  SetState(e, "Failed to access microphone")

\* getUserMedia rejects: startRecording's catch block
MicDenied(k) ==
  /\ k \in pendingMic
  /\ pendingMic' = pendingMic \ {k}
  /\ recorders' = [recorders EXCEPT ![k].state = "denied"]
  /\ wsError' = MicError(wsError)
  /\ isRecording' = SetState(isRecording, FALSE)
  /\ UNCHANGED <<prefVars, shellVars, mounted, conn, wsInstance, messages, inputMessage,
                 selectedLanguage, wire, audios, audioPlayerRef, delivered,
                 lastSend, now, mediaRecorderRef, streams, detectors,
                 isProcessing, uploads, autoStops, lastStt, showOriginal>>

\* the condition of stopRecording's if
CanStop(rs, ref) ==
  ref # 0 /\ rs[ref].state = "recording"

\* stopRecording(): mediaRecorderRef.current.stop() makes the recorder
\* inactive and queues its stop event
StopRecorder(rs, ref) ==
  IF CanStop(rs, ref)
    THEN [rs EXCEPT ![ref].state = "inactive", ![ref].stopEvent = "queued"]
    ELSE rs

\* mic button onClick while isRecording is true: stopRecording()
StopRecording ==
  /\ mounted
  /\ isRecording /\ ~isProcessing
  /\ CanStop(recorders, mediaRecorderRef)
  /\ recorders' = StopRecorder(recorders, mediaRecorderRef)
  /\ isRecording' = FALSE
  /\ UNCHANGED <<prefVars, shellVars, mounted, conn, wsInstance, messages, wsError, inputMessage,
                 selectedLanguage, wire, audios, audioPlayerRef, delivered,
                 lastSend, now, pendingMic, mediaRecorderRef, streams,
                 detectors, isProcessing, uploads, autoStops, lastStt, showOriginal>>

\* mediaRecorder.onstop up to await fetch: setIsProcessing(true), request sent
OnStop(k) ==
  /\ recorders[k].stopEvent = "queued"
  /\ recorders' = [recorders EXCEPT ![k].stopEvent = "handled"]
  /\ isProcessing' = SetState(isProcessing, TRUE)
  /\ uploads' = uploads \cup {k}
  /\ UNCHANGED <<prefVars, shellVars, mounted, conn, wsInstance, messages, wsError, inputMessage,
                 selectedLanguage, wire, audios, audioPlayerRef, delivered,
                 lastSend, now, pendingMic, mediaRecorderRef, streams,
                 detectors, isRecording, autoStops, lastStt, showOriginal>>

\* data.language of a speech-to-text response: absent, the source language
\* echoed, or a detected language
SpeechLanguages ==
  { [detected |-> FALSE, code |-> ""],
    [detected |-> FALSE, code |-> "en"],
    [detected |-> TRUE, code |-> "hi"] }

\* the finally block of onstop left out
ProcessingDoneMissing(p) ==
  p

\* the finally block of onstop: setIsProcessing(false)
ProcessingDone(p) ==
  SetState(p, FALSE)

\* mediaRecorder.onstop after the fetch resolved with response.ok; a response
\* without text carries no detected language
UploadSuccess(k, text, language) ==
  /\ k \in uploads
  /\ uploads' = uploads \ {k}
  /\ isProcessing' = ProcessingDone(isProcessing)
  /\ lastStt' = [outcome |-> "ok", detected |-> language.detected,
                 code |-> language.code, calls |-> Calls]
  /\ IF Truthy(text)
       THEN /\ IF Truthy(trim(text)) /\ recorders[k].ws # 0
                 THEN HandleSendMessage(text, recorders[k].ws, recorders[k].lang)
                 ELSE UNCHANGED <<messages, wire, inputMessage, wsError, lastSend>>
            /\ selectedLanguage' =
                 IF language.detected /\ autoDetectLanguage
                   THEN SetState(selectedLanguage, language.code)
                   ELSE selectedLanguage
       ELSE /\ ~language.detected
            /\ UNCHANGED <<messages, wire, inputMessage, wsError, lastSend,
                           selectedLanguage>>
  /\ UNCHANGED <<prefVars, shellVars, mounted, conn, wsInstance, audios, audioPlayerRef, delivered,
                 now, pendingMic, recorders, mediaRecorderRef, streams,
                 detectors, isRecording, autoStops, showOriginal>>

\* mediaRecorder.onstop when the fetch rejects or the response is not ok
UploadFail(k) ==
  /\ k \in uploads
  /\ uploads' = uploads \ {k}
  /\ wsError' = SetState(wsError, "Failed to process voice input")
  /\ isProcessing' = ProcessingDone(isProcessing)
  /\ lastStt' = [outcome |-> "fail", detected |-> FALSE, code |-> "",
                 calls |-> Calls]
  /\ UNCHANGED <<prefVars, shellVars, mounted, conn, wsInstance, messages, inputMessage,
                 selectedLanguage, wire, audios, audioPlayerRef, delivered,
                 lastSend, now, pendingMic, recorders, mediaRecorderRef,
                 streams, detectors, isRecording, autoStops, showOriginal>>

\* the condition under which the audioprocess listener calls onSilence
SilenceDetected(d, average, t) ==
  /\ t - d.startTime > minRecordingDuration
  /\ average = 0
  /\ t - d.lastSound > silenceDelay

\* the releases that follow onSilence(): microphone.disconnect(),
\* scriptProcessor.disconnect(), audioContext.close()
ReleaseGraph(d) ==
  [d EXCEPT !.microphone = FALSE, !.scriptProcessor = FALSE, !.ctx = "closed"]

\* one audioprocess event of detector k with the sampled average energy
AudioProcess(k, average) ==
  LET d == detectors[k]
      fire == SilenceDetected(d, average, now)
      \* lastSound is never assigned by the listener; heard is the history
      \* of the last sample that did carry sound
      sampled == [d EXCEPT !.heard = IF average > 0 THEN now ELSE @]
  IN
  /\ d.ctx = "running"
  /\ IF fire
       THEN /\ recorders' = StopRecorder(recorders, mediaRecorderRef)
            /\ isRecording' = IF CanStop(recorders, mediaRecorderRef)
                                THEN SetState(isRecording, FALSE)
                                ELSE isRecording
            /\ detectors' = [detectors EXCEPT ![k] = ReleaseGraph(sampled)]
            /\ autoStops' = autoStops \cup
                 { [detector |-> k, at |-> now, heard |-> d.heard,
                    started |-> d.startTime, own |-> recorders[k].state,
                    recorder |-> IF CanStop(recorders, mediaRecorderRef)
                                   THEN mediaRecorderRef ELSE 0] }
       ELSE /\ detectors' = [detectors EXCEPT ![k] = sampled]
            /\ UNCHANGED <<recorders, isRecording, autoStops, lastStt, showOriginal>>
  /\ UNCHANGED <<prefVars, shellVars, mounted, conn, wsInstance, messages, wsError, inputMessage,
                 selectedLanguage, wire, audios, audioPlayerRef, delivered,
                 lastSend, now, pendingMic, mediaRecorderRef, streams,
                 isProcessing, uploads, lastStt, showOriginal>>

\* time passes
Tick ==
  /\ now + TickMs <= MaxTime
  /\ now' = now + TickMs
  /\ UNCHANGED <<prefVars, shellVars, mounted, conn, wsInstance, messages, wsError, inputMessage,
                 selectedLanguage, wire, audios, audioPlayerRef, delivered,
                 lastSend, pendingMic, recorders, mediaRecorderRef, streams,
                 detectors, isRecording, isProcessing, uploads, autoStops, lastStt, showOriginal>>


(***************************************************************************)
(* Preferences: localStorage['userLanguagePreferences'] and its handlers   *)
(***************************************************************************)
Langs == {"en", "hi"}

Genders == {"female", "male"}

\* a voice object; isSet = FALSE stands for a missing voice key
NoVoice ==
  [isSet |-> FALSE, enabled |-> "", gender |-> "", speed |-> 0]

\* the voice object both components construct their settings with
DefaultVoice ==
  [isSet |-> TRUE, enabled |-> "true", gender |-> "female", speed |-> 1]

\* the stored JSON object; a key that is missing holds "" (NoVoice for voice)
EmptyBlob ==
  [present |-> TRUE, interface |-> "", preferred |-> "", autoDetect |-> "",
   auto_detect |-> "", voice |-> NoVoice, interfaceLanguage |-> "",
   preferredLanguage |-> "", autoDetectLanguage |-> ""]

\* localStorage.getItem returns null
AbsentBlob ==
  [EmptyBlob EXCEPT !.present = FALSE]

\* the blob UserDetailsForm.handleSubmit stores before entering the chat
FormBlob(language, enable_auto_detect) ==
  [EmptyBlob EXCEPT !.preferred = language, !.interface = language,
                    !.auto_detect = enable_auto_detect]

\* a ?? b
Nullish(a, b) ==
  IF a = "" THEN b ELSE a

\* useState settings of ConsultationPage
PageDefaults ==
  [showSettings |-> FALSE, interfaceLanguage |-> "en",
   preferredLanguage |-> "en", autoDetectLanguage |-> "true",
   voice |-> DefaultVoice]

\* useState settings of ChatInterface
ChatDefaults ==
  [interfaceLanguage |-> "en", preferredLanguage |-> "en",
   autoDetectLanguage |-> "true", voice |-> DefaultVoice]

\* ConsultationPage 'Load saved preferences' effect
PageLoad(blob, prev) ==
  IF blob.present
    THEN [prev EXCEPT !.interfaceLanguage = OrElse(blob.interface, "en"),
                      !.preferredLanguage = OrElse(blob.preferred, "en"),
                      !.autoDetectLanguage = Nullish(blob.autoDetect, "true"),
                      !.voice = IF blob.voice.isSet THEN blob.voice ELSE prev.voice]
    ELSE prev

\* ChatInterface load effect: JSON.parse(getItem(...) || '{}')
ChatLoad(blob, prev) ==
  LET saved == IF blob.present THEN blob ELSE EmptyBlob IN
  [prev EXCEPT !.interfaceLanguage = OrElse(saved.interface, "en"),
               !.preferredLanguage = OrElse(saved.preferred, "en"),
               !.autoDetectLanguage = Nullish(saved.autoDetect, "true"),
               !.voice = IF saved.voice.isSet THEN saved.voice ELSE prev.voice]

\* the object handleSettingChange stringifies
PageBlob(newSettings) ==
  [EmptyBlob EXCEPT !.interface = newSettings.interfaceLanguage,
                    !.preferred = newSettings.preferredLanguage,
                    !.autoDetect = newSettings.autoDetectLanguage,
                    !.voice = newSettings.voice]

\* JSON.stringify(newSettings) in handleLanguageChange / handleAutoDetectChange
ChatBlob(newSettings) ==
  [EmptyBlob EXCEPT !.interfaceLanguage = newSettings.interfaceLanguage,
                    !.preferredLanguage = newSettings.preferredLanguage,
                    !.autoDetectLanguage = newSettings.autoDetectLanguage,
                    !.voice = newSettings.voice]

\* the language/voice part of a settings object
Effective(settings) ==
  [interfaceLanguage |-> settings.interfaceLanguage,
   preferredLanguage |-> settings.preferredLanguage,
   autoDetectLanguage |-> settings.autoDetectLanguage,
   voice |-> settings.voice]

\* what a freshly mounted session loads from the stored blob
FreshLoad(blob) ==
  ChatLoad(blob, ChatDefaults)

\* values the settings drawer can pass to handleSettingChange
SettingValues(setting) ==
  CASE setting = "showSettings" -> {"true", "false"}
    [] setting = "interfaceLanguage" -> Langs
    [] setting = "preferredLanguage" -> Langs
    [] setting = "autoDetectLanguage" -> {"true", "false"}

\* ConsultationPage handleSettingChange(setting, value) for a scalar setting
HandleSettingChange(setting, value) ==
  LET newSettings ==
        IF setting = "showSettings"
          THEN [pageSettings EXCEPT !.showSettings = (value = "true")]
          ELSE [pageSettings EXCEPT ![setting] = value]
  IN
  /\ value \in SettingValues(setting)
  /\ pageSettings' = newSettings
  /\ storage' = PageBlob(newSettings)
  /\ lastUpdate' = [made |-> TRUE, handler |-> "page", setting |-> setting,
                    expected |-> Effective(newSettings)]
  /\ UNCHANGED chatSettings
  /\ UNCHANGED <<sessionVars, shellVars>>

\* ConsultationPage handleSettingChange('voice', {...settings.voice, ...})
HandleVoiceChange(enabled, gender) ==
  LET newVoice == [pageSettings.voice EXCEPT !.enabled = enabled, !.gender = gender]
      newSettings == [pageSettings EXCEPT !.voice = newVoice]
  IN
  \* one control changes per call; the gender select shows only when enabled
  /\ \/ enabled # pageSettings.voice.enabled /\ gender = pageSettings.voice.gender
     \/ /\ enabled = pageSettings.voice.enabled /\ enabled = "true"
        /\ gender # pageSettings.voice.gender
  /\ pageSettings' = newSettings
  /\ storage' = PageBlob(newSettings)
  /\ lastUpdate' = [made |-> TRUE, handler |-> "page", setting |-> "voice",
                    expected |-> Effective(newSettings)]
  /\ UNCHANGED chatSettings
  /\ UNCHANGED <<sessionVars, shellVars>>

\* fetchConsultationData: language_preferences of the status response
ServerPreferences(preferred, interface) ==
  /\ pageSettings' =
       [pageSettings EXCEPT
          !.preferredLanguage = OrElse(preferred, pageSettings.preferredLanguage),
          !.interfaceLanguage = OrElse(interface, pageSettings.interfaceLanguage)]
  /\ pageSettings' # pageSettings
  /\ UNCHANGED <<storage, chatSettings, lastUpdate>>
  /\ UNCHANGED <<sessionVars, shellVars>>

\* ChatInterface handleLanguageChange(language); the select is disabled
\* while auto-detect is on
HandleLanguageChange(language) ==
  LET newSettings == [chatSettings EXCEPT !.preferredLanguage = language] IN
  /\ chatSettings.autoDetectLanguage = "false"
  /\ chatSettings' = newSettings
  /\ storage' = ChatBlob(newSettings)
  /\ lastUpdate' = [made |-> TRUE, handler |-> "chat",
                    setting |-> "preferredLanguage",
                    expected |-> Effective(newSettings)]
  /\ UNCHANGED pageSettings
  /\ UNCHANGED <<sessionVars, shellVars>>

\* ChatInterface handleAutoDetectChange(value)
HandleAutoDetectChange(value) ==
  LET newSettings == [chatSettings EXCEPT !.autoDetectLanguage = value] IN
  /\ chatSettings' = newSettings
  /\ storage' = ChatBlob(newSettings)
  /\ lastUpdate' = [made |-> TRUE, handler |-> "chat",
                    setting |-> "autoDetectLanguage",
                    expected |-> Effective(newSettings)]
  /\ UNCHANGED pageSettings
  /\ UNCHANGED <<sessionVars, shellVars>>

\* the page is entered again: both components are constructed and their
\* load effects run
EnterSession ==
  /\ pageSettings' = PageLoad(storage, PageDefaults)
  /\ chatSettings' = ChatLoad(storage, ChatDefaults)
  /\ <<pageSettings', chatSettings'>> # <<pageSettings, chatSettings>>
  /\ UNCHANGED <<storage, lastUpdate>>
  /\ UNCHANGED <<sessionVars, shellVars>>

\* the objects localStorage can hold under the key when a session is entered:
\* any of the four top-level keys and any sub-field of voice may be missing
StoredBlobs ==
  { [EmptyBlob EXCEPT !.interface = i, !.preferred = p, !.autoDetect = a, !.voice = v] :
      i \in {"", "hi"}, p \in {"", "hi"}, a \in {"", "false"},
      v \in {NoVoice} \cup
            [isSet : {TRUE}, enabled : {"", "false"}, gender : {"", "male"},
             speed : {0, 2}] }
  \cup {AbsentBlob}

\* the session is entered with a blob left in localStorage by an earlier
\* visit: both load effects read it
EnterWithBlob(blob) ==
  /\ blob # storage
  /\ storage' = blob
  /\ pageSettings' = PageLoad(blob, PageDefaults)
  /\ chatSettings' = ChatLoad(blob, ChatDefaults)
  /\ lastUpdate' = [made |-> FALSE, handler |-> "", setting |-> "",
                    expected |-> ChatDefaults]
  /\ UNCHANGED <<sessionVars, shellVars>>

\* the id checkConsultation queries: localStorage.getItem('consultationId')
QueriedId(stored, route) ==
  stored

\* consultation ids the server hands out
Ids == {1, 2}

\* ProtectedRoute is mounted for the route with param x: isChecking starts
\* true and checkConsultation runs up to its first await or its early return
MountProtected(x) ==
  /\ isChecking' = TRUE
  /\ lastCheck' = "none"
  /\ activeSeen' = {}
  /\ IF storedId' = 0
       THEN routeId' = 0 /\ pendingQuery' = 0
       ELSE routeId' = x /\ pendingQuery' = QueriedId(storedId', x)

(***************************************************************************)
(* AudioControls: the player of one message bubble                         *)
(***************************************************************************)
\* values of the volume slider, the speed menu and the seek slider
Volumes == {0, 1}

Speeds == {1, 2}

Positions == {0, 1}

\* HTMLMediaElement.pause()
Pause(element) ==
  IF element = "playing" THEN "paused" ELSE element

\* the effect with dependencies [audioUrl, playbackSpeed, volume]: when one of
\* them changed, its cleanup runs (audio.pause()) before it runs again
RerunEffect(element, changed) ==
  IF changed THEN Pause(element) ELSE element

\* handlePlayPause; play() is not awaited and its promise has no handler
HandlePlayPause(playOk) ==
  /\ \E i \in 1..Len(messages) : Truthy(messages[i].audio)
  /\ IF acPlaying
       THEN /\ playOk
            /\ acElement' = Pause(acElement)
            /\ UNCHANGED acUnhandled
       ELSE /\ acElement' = IF playOk THEN "playing" ELSE acElement
            /\ acUnhandled' = (acUnhandled \/ ~playOk)
  /\ acPlaying' = ~acPlaying
  /\ UNCHANGED <<acCurrentTime, acVolume, acSpeed>>
  /\ UNCHANGED <<sessionVars, prefVars, routeVars, sliceVars>>

\* updateProgress, the animation frame callback while the element plays
UpdateProgress(position) ==
  /\ acPlaying
  /\ acElement = "playing"
  /\ acCurrentTime' = position
  /\ UNCHANGED <<acPlaying, acElement, acVolume, acSpeed, acUnhandled>>
  /\ UNCHANGED <<sessionVars, prefVars, routeVars, sliceVars>>

\* handleTimeChange, the seek slider
HandleTimeChange(value) ==
  /\ \E i \in 1..Len(messages) : Truthy(messages[i].audio)
  /\ acCurrentTime' = value
  /\ acElement' = IF acElement = "ended" THEN "paused" ELSE acElement
  /\ UNCHANGED <<acPlaying, acVolume, acSpeed, acUnhandled>>
  /\ UNCHANGED <<sessionVars, prefVars, routeVars, sliceVars>>

\* handleVolumeChange, and the effect its setVolume triggers
HandleVolumeChange(value) ==
  /\ \E i \in 1..Len(messages) : Truthy(messages[i].audio)
  /\ acVolume' = value
  /\ acElement' = RerunEffect(acElement, value # acVolume)
  /\ UNCHANGED <<acPlaying, acCurrentTime, acSpeed, acUnhandled>>
  /\ UNCHANGED <<sessionVars, prefVars, routeVars, sliceVars>>

\* handleSpeedChange, and the effect its setPlaybackSpeed triggers
HandleSpeedChange(speed) ==
  /\ \E i \in 1..Len(messages) : Truthy(messages[i].audio)
  /\ acSpeed' = speed
  /\ acElement' = RerunEffect(acElement, speed # acSpeed)
  /\ UNCHANGED <<acPlaying, acCurrentTime, acVolume, acUnhandled>>
  /\ UNCHANGED <<sessionVars, prefVars, routeVars, sliceVars>>

\* the element reaches the end of its stream: the ended listener of the effect
HandleEnded ==
  /\ acElement = "playing"
  /\ acElement' = "ended"
  /\ acPlaying' = FALSE
  /\ acCurrentTime' = 0
  /\ UNCHANGED <<acVolume, acSpeed, acUnhandled>>
  /\ UNCHANGED <<sessionVars, prefVars, routeVars, sliceVars>>

(***************************************************************************)
(* consultationSlice: the loading flag of the consultation state container *)
(***************************************************************************)
\* requests in flight
InFlight ==
  inflight.start + inflight.status

\* rejectWithValue payloads of the two thunks
StartErrors == {"Failed to start consultation", "Network Error"}

StatusErrors == {"Failed to get consultation status", "Network Error"}

\* handleSubmit up to its await: dispatch(startConsultation(formattedData)),
\* reduced by startConsultation.pending; the submit button is disabled until
\* the handler has finished
StartSubmit ==
  /\ inflight.start = 0
  /\ InFlight < MaxRequests
  /\ inflight' = [inflight EXCEPT !.start = @ + 1]
  /\ loading' = TRUE
  /\ sliceError' = ""
  /\ sliceStatus' = "loading"
  /\ UNCHANGED <<sessionVars, prefVars, controlVars, routeVars>>

\* UserDetailsForm handleSubmit after its await, when startConsultation
\* resolved with consultation_id id: startConsultation.fulfilled has reduced
\* the slice, both localStorage items are written and the chat page of id is
\* navigated to
SubmitForm(language, enable_auto_detect, id) ==
  /\ inflight.start > 0
  /\ inflight' = [inflight EXCEPT !.start = @ - 1]
  /\ loading' = FALSE
  /\ sliceStatus' = "succeeded"
  /\ UNCHANGED sliceError
  /\ storage' = FormBlob(language, enable_auto_detect)
  /\ pageSettings' = PageLoad(storage', PageDefaults)
  /\ chatSettings' = ChatLoad(storage', ChatDefaults)
  /\ lastUpdate' = [made |-> FALSE, handler |-> "", setting |-> "",
                    expected |-> ChatDefaults]
  /\ storedId' = id
  /\ MountProtected(id)
  /\ UNCHANGED <<sessionVars, controlVars>>

\* startConsultation.fulfilled with a response that has no consultation_id:
\* handleSubmit throws and stays on the form
StartFulfilled ==
  /\ inflight.start > 0
  /\ inflight' = [inflight EXCEPT !.start = @ - 1]
  /\ loading' = FALSE
  /\ sliceStatus' = "succeeded"
  /\ UNCHANGED sliceError
  /\ UNCHANGED <<sessionVars, prefVars, controlVars, routeVars>>

\* startConsultation.rejected
StartRejected(payload) ==
  /\ inflight.start > 0
  /\ inflight' = [inflight EXCEPT !.start = @ - 1]
  /\ loading' = FALSE
  /\ sliceStatus' = "failed"
  /\ sliceError' = payload
  /\ UNCHANGED <<sessionVars, prefVars, controlVars, routeVars>>

\* ConsultationPage is entered (or its consultationId changes): both effects
\* with dependencies [consultationId, dispatch] dispatch getConsultationStatus,
\* each reduced by getConsultationStatus.pending
EnterPage ==
  /\ InFlight + 2 <= MaxRequests
  /\ inflight' = [inflight EXCEPT !.status = @ + 2]
  /\ loading' = TRUE
  /\ sliceError' = ""
  /\ UNCHANGED sliceStatus
  /\ UNCHANGED <<sessionVars, prefVars, controlVars, routeVars>>

\* getConsultationStatus.fulfilled
StatusFulfilled ==
  /\ inflight.status > 0
  /\ inflight' = [inflight EXCEPT !.status = @ - 1]
  /\ loading' = FALSE
  /\ sliceStatus' = "succeeded"
  /\ UNCHANGED sliceError
  /\ UNCHANGED <<sessionVars, prefVars, controlVars, routeVars>>

\* getConsultationStatus.rejected
StatusRejected(payload) ==
  /\ inflight.status > 0
  /\ inflight' = [inflight EXCEPT !.status = @ - 1]
  /\ loading' = FALSE
  /\ sliceError' = payload
  /\ UNCHANGED sliceStatus
  /\ UNCHANGED <<sessionVars, prefVars, controlVars, routeVars>>

(***************************************************************************)
(* ProtectedRoute: the gate of the consultation pages                      *)
(***************************************************************************)
\* what axios.get(.../api/consultation/status/id) can come back with: status
\* "active", any other status, or a failure
CheckOutcomes == {"active", "other", "failed"}

\* the browser goes back from a rendered protected page to a route outside
\* ProtectedRoute: the page and its ChatInterface are torn down
LeaveProtected ==
  /\ routeId # 0
  /\ pendingQuery = 0
  /\ routeId' = 0
  /\ IF mounted
       THEN /\ mounted' = FALSE
            /\ audios' = CleanupAudio(audios, audioPlayerRef)
            /\ conn' = CleanupWs(conn)
       ELSE UNCHANGED <<mounted, audios, conn>>
  /\ UNCHANGED <<storedId, isChecking, pendingQuery, activeSeen, lastCheck>>
  /\ UNCHANGED <<wsInstance, messages, wsError, inputMessage, selectedLanguage,
                 wire, audioPlayerRef, delivered, lastSend, now, pendingMic,
                 recorders, mediaRecorderRef, streams, detectors, isRecording,
                 isProcessing, uploads, autoStops, lastStt, showOriginal>>
  /\ UNCHANGED <<prefVars, controlVars, sliceVars>>

\* the history or a link leads to the protected route with param x:
\* ProtectedRoute is mounted and its effect starts checkConsultation
OpenUrl(x) ==
  /\ routeId = 0
  /\ UNCHANGED storedId
  /\ MountProtected(x)
  /\ UNCHANGED <<sessionVars, prefVars, controlVars, sliceVars>>

\* checkConsultation after its await
CheckResponse(outcome) ==
  /\ pendingQuery # 0
  /\ pendingQuery' = 0
  /\ lastCheck' = outcome
  /\ IF outcome = "active"
       THEN /\ isChecking' = FALSE
            /\ activeSeen' = activeSeen \cup {pendingQuery}
            /\ UNCHANGED <<storedId, routeId>>
       ELSE /\ storedId' = 0
            /\ routeId' = 0
            /\ UNCHANGED <<isChecking, activeSeen>>
  /\ UNCHANGED <<sessionVars, prefVars, controlVars, sliceVars>>

(***************************************************************************)
(* Specifications                                                          *)
(***************************************************************************)
Init ==
  /\ mounted = TRUE
  /\ conn = <<"connecting">>
  /\ wsInstance = 1
  /\ messages = InitialMessages
  /\ wsError = ""
  /\ inputMessage = ""
  /\ selectedLanguage = "en"
  /\ wire = << << >> >>
  /\ audios = << >>
  /\ audioPlayerRef = 0
  /\ delivered = << >>
  /\ lastSend = [n |-> 0, readyState |-> "", eventsBefore |-> 0,
                 transmitted |-> FALSE, threw |-> FALSE, errorShown |-> FALSE,
                 text |-> "", ws |-> 0, lang |-> "", currentWs |-> 0,
                 currentLang |-> "", storeBefore |-> 0, at |-> 0]
  /\ now = 0
  /\ pendingMic = {}
  /\ recorders = << >>
  /\ mediaRecorderRef = 0
  /\ streams = {}
  /\ detectors = << >>
  /\ isRecording = FALSE
  /\ isProcessing = FALSE
  /\ uploads = {}
  /\ autoStops = {}
  /\ showOriginal = {}
  /\ lastStt = [outcome |-> "", detected |-> FALSE, code |-> "", calls |-> 0]
  /\ storage = AbsentBlob
  /\ pageSettings = PageLoad(storage, PageDefaults)
  /\ chatSettings = ChatLoad(storage, ChatDefaults)
  /\ lastUpdate = [made |-> FALSE, handler |-> "", setting |-> "",
                   expected |-> ChatDefaults]
  /\ acPlaying = FALSE
  /\ acElement = "paused"
  /\ acCurrentTime = 0
  /\ acVolume = 1
  /\ acSpeed = 1
  /\ acUnhandled = FALSE
  /\ storedId = 1
  /\ routeId = 1
  /\ isChecking = FALSE
  /\ pendingQuery = 0
  /\ activeSeen = {1}
  /\ lastCheck = "active"
  /\ loading = FALSE
  /\ sliceStatus = "succeeded"
  /\ sliceError = ""
  /\ inflight = [start |-> 0, status |-> 0]

\* the channel, the conversation store and the playback
NextChannel ==
  \/ \E c \in 1..MaxConn : c <= Len(conn) /\ WsOpen(c)
  \/ \E c \in 1..MaxConn, data \in InboundEvents, playOk \in BOOLEAN :
       c <= Len(conn) /\ WsMessage(c, data, playOk)
  \/ \E a \in 1..MaxTraffic : a <= Len(audios) /\ AudioEnded(a)
  \/ \E c \in 1..MaxConn : c <= Len(conn) /\ WsFail(c)
  \/ \E c \in 1..MaxConn : c <= Len(conn) /\ WsClose(c)
  \/ EffectRerun
  \/ Unmount
  \/ DismissError
  \/ \E t \in Texts : TypeInput(t)
  \/ SendTyped

\* the voice capture pipeline on the session's first connection
NextVoice ==
  \/ WsOpen(1)
  \/ StartRecording
  \/ \E k \in 1..MaxRec : MicGranted(k)
  \/ \E k \in 1..MaxRec : MicDenied(k)
  \/ StopRecording
  \/ \E k \in 1..MaxRec : k <= Len(recorders) /\ OnStop(k)
  \/ \E k \in 1..MaxRec, text \in Texts, language \in SpeechLanguages :
       UploadSuccess(k, text, language)
  \/ \E k \in 1..MaxRec : UploadFail(k)
  \/ \E k \in 1..MaxRec, average \in {0, 1} :
       k <= Len(detectors) /\ AudioProcess(k, average)
  \/ Tick
  \/ Unmount

\* the speech-to-text path of a manually stopped recording, with the
\* auto-detect switch of the language selector
NextDetect ==
  \/ WsOpen(1)
  \/ StartRecording
  \/ \E k \in 1..MaxRec : MicGranted(k)
  \/ StopRecording
  \/ \E k \in 1..MaxRec : k <= Len(recorders) /\ OnStop(k)
  \/ \E k \in 1..MaxRec, text \in Texts, language \in SpeechLanguages :
       UploadSuccess(k, text, language)
  \/ \E k \in 1..MaxRec : UploadFail(k)
  \/ \E value \in {"true", "false"} : HandleAutoDetectChange(value)

\* the preference handlers
NextPrefs ==
  \/ StartSubmit
  \/ \E language \in Langs, auto \in {"true", "false"}, id \in Ids :
       SubmitForm(language, auto, id)
  \/ \E setting \in {"showSettings", "interfaceLanguage", "preferredLanguage",
                     "autoDetectLanguage"} :
       \E value \in SettingValues(setting) : HandleSettingChange(setting, value)
  \/ \E enabled \in {"true", "false"}, gender \in Genders :
       HandleVoiceChange(enabled, gender)
  \/ \E preferred \in Langs \cup {""}, interface \in Langs \cup {""} :
       ServerPreferences(preferred, interface)
  \/ \E language \in Langs : HandleLanguageChange(language)
  \/ \E value \in {"true", "false"} : HandleAutoDetectChange(value)
  \/ EnterSession

\* the paths that reach the conversation store or a message bubble outside
\* the voice pipeline: the inbound frames, the typed send, the playback, the
\* bubble's toggle and the language selector
NextStore ==
  \/ WsOpen(1)
  \/ \E data \in InboundEvents, playOk \in BOOLEAN : WsMessage(1, data, playOk)
  \/ \E a \in 1..MaxTraffic : a <= Len(audios) /\ AudioEnded(a)
  \/ \E t \in Texts : TypeInput(t)
  \/ SendTyped
  \/ \E i \in 1..(MaxTraffic + 1) : ToggleOriginal(i)
  \/ \E value \in {"true", "false"} : HandleAutoDetectChange(value)

\* loading the preferences on entry, and changing them in the settings drawer
NextLoad ==
  \/ \E blob \in StoredBlobs : EnterWithBlob(blob)
  \/ \E setting \in {"showSettings", "interfaceLanguage", "preferredLanguage",
                     "autoDetectLanguage"} :
       \E value \in SettingValues(setting) : HandleSettingChange(setting, value)

\* the playback of a reply: the autoplay of ws.onmessage and the player of
\* the bubble
NextPlayback ==
  \/ WsOpen(1)
  \/ \E data \in InboundEvents, playOk \in BOOLEAN : WsMessage(1, data, playOk)
  \/ \E a \in 1..MaxTraffic : a <= Len(audios) /\ AudioEnded(a)
  \/ \E playOk \in BOOLEAN : HandlePlayPause(playOk)
  \/ \E position \in Positions : UpdateProgress(position)
  \/ \E value \in Positions : HandleTimeChange(value)
  \/ \E value \in Volumes : HandleVolumeChange(value)
  \/ \E speed \in Speeds : HandleSpeedChange(speed)
  \/ HandleEnded

\* the thunks of the consultation slice
NextSlice ==
  \/ StartSubmit
  \/ \E language \in Langs, auto \in {"true", "false"}, id \in Ids :
       SubmitForm(language, auto, id)
  \/ StartFulfilled
  \/ \E payload \in StartErrors : StartRejected(payload)
  \/ EnterPage
  \/ StatusFulfilled
  \/ \E payload \in StatusErrors : StatusRejected(payload)

\* the gate of the protected pages: the form that stores the id, the
\* navigation and the status check
NextRoute ==
  \/ StartSubmit
  \/ \E language \in Langs, auto \in {"true", "false"}, id \in Ids :
       SubmitForm(language, auto, id)
  \/ \E payload \in StartErrors : StartRejected(payload)
  \/ LeaveProtected
  \/ \E x \in Ids : OpenUrl(x)
  \/ \E outcome \in CheckOutcomes : CheckResponse(outcome)

Next ==
  \/ NextRoute
  \/ NextSlice
  \/ NextPlayback
  \/ NextLoad
  \/ NextStore
  \/ NextChannel
  \/ NextVoice
  \/ NextDetect
  \/ NextPrefs

Spec ==
  Init /\ [][Next]_vars

SpecChannel ==
  Init /\ [][NextChannel]_vars

SpecVoice ==
  Init /\ [][NextVoice]_vars

SpecDetect ==
  Init /\ [][NextDetect]_vars

SpecStore ==
  Init /\ [][NextStore]_vars

SpecLoad ==
  Init /\ [][NextLoad]_vars

SpecPrefs ==
  Init /\ [][NextPrefs]_vars

SpecPlayback ==
  Init /\ [][NextPlayback]_vars

SpecSlice ==
  Init /\ [][NextSlice]_vars

SpecRoute ==
  Init /\ [][NextRoute]_vars

(***************************************************************************)
(* Claims                                                                  *)
(***************************************************************************)
\* the store entries that N delivered frames map to
MappedEvents ==
  [i \in 1..Len(delivered) |->
     MessageOfEvent(delivered[i].data,
                    IF i <= Len(messages) THEN messages[i].timestamp ELSE 0)]

\* a frame that parses and is not of type "error"
Mappable(data) ==
  data.parse = "ok" /\ data.type # "error"

\* C1: when N >= 1 inbound frames e1..eN, each mapping to a Message, have been
\* delivered (and nothing was sent locally), the conversation store equals
\* [e1..eN] mapped to Messages, one entry per frame, in arrival order.
C1_StoreIsMappedEvents ==
  ( /\ Len(delivered) >= 1 /\ lastSend.n = 0
    /\ \A i \in 1..Len(delivered) : Mappable(delivered[i].data) )
  => messages = MappedEvents

\* C2: fresh session, channel open, one text message sent and then one
\* non-error frame received: the store holds exactly [user, bot] and the bot
\* entry carries the frame's requires_emergency.
C2_UserThenBot ==
  ( /\ lastSend.n = 1 /\ lastSend.readyState = "open"
    /\ lastSend.eventsBefore = 0
    /\ Len(delivered) = 1
    /\ Mappable(delivered[1].data) )
  => /\ Len(messages) = 2
     /\ messages[1].type = "user"
     /\ messages[2].type = "bot"
     /\ messages[2].analysis.requiresEmergency
          = delivered[1].data.requires_emergency

\* C3: when sound was still sampled after the minimum duration, the auto-stop
\* fires no earlier than silenceDelay after the last sample that carried sound.
C3_SilenceWindowRestarts ==
  \A s \in autoStops :
    s.heard >= s.started + minRecordingDuration
      => s.at - s.heard >= silenceDelay

\* C4: no recording is auto-stopped before its own start + minRecordingDuration.
C4_MinimumDuration ==
  \A s \in autoStops :
    s.recorder # 0
      => s.at - detectors[s.recorder].startTime >= minRecordingDuration

\* the audio elements that are playing
Playing ==
  {a \in 1..Len(audios) : audios[a] = "playing"}

\* C5: never two playbacks active at the same time.
C5_SinglePlayback ==
  Cardinality(Playing) <= 1

\* the audio graph of detector k is fully released
Released(k) ==
  /\ detectors[k].ctx # "running"
  /\ ~detectors[k].microphone
  /\ ~detectors[k].analyser
  /\ ~detectors[k].scriptProcessor

\* C6: once a recording has terminated (stopped manually, stopped on silence,
\* or failed to start), none of its audio-graph resources remains open or
\* connected.
C6_ResourcesReleased ==
  \A k \in 1..Len(recorders) :
    recorders[k].state \in {"inactive", "denied"} => Released(k)

\* C7: after an update through any handler, a fresh session loads exactly
\* the handler's new settings: the updated field and all the others.
C7_PreferenceRoundTrip ==
  lastUpdate.made => Effective(FreshLoad(storage)) = lastUpdate.expected

\* the connections that can still open or deliver
Live ==
  {c \in 1..Len(conn) : conn[c] \in {"connecting", "open"}}

\* C8: at most one connection is connecting or open; every connection but the
\* one the last effect created is closing or closed, and every frame that
\* reached the store came from the connection of the effect current then.
C8_OneLiveConnection ==
  /\ Cardinality(Live) <= 1
  /\ \A c \in 1..Len(conn) : c < Len(conn) => conn[c] \in {"closing", "closed"}
  /\ \A i \in 1..Len(delivered) : delivered[i].ws = delivered[i].effectWs

\* C8 witness: the connection was re-established, the previous one is closed,
\* and both have delivered a frame.
C8_Witness ==
  /\ Len(conn) = 2
  /\ conn[1] = "closed" /\ conn[2] = "open"
  /\ \E i, j \in 1..Len(delivered) : delivered[i].ws = 1 /\ delivered[j].ws = 2

\* C9: a send attempted while the channel is not open transmits nothing and
\* leaves an error shown to the user.
C9_SendFailsWhenNotOpen ==
  (lastSend.n > 0 /\ lastSend.readyState # "open")
    => ~lastSend.transmitted /\ lastSend.errorShown

\* C10: at most one recorder is recording and at most one microphone stream
\* is held.
C10_SingleRecording ==
  /\ Cardinality({k \in 1..Len(recorders) : recorders[k].state = "recording"}) <= 1
  /\ Cardinality(streams) <= 1

\* C11: after the chat component is torn down, no recorder is recording, no
\* audio is playing and the effect's connection is closing or closed.
C11_TeardownReleases ==
  ~mounted =>
    /\ \A k \in 1..Len(recorders) : recorders[k].state # "recording"
    /\ Playing = {}
    /\ conn[EffectWs] \in {"closing", "closed"}

\* C12: the entry of a locally sent message is appended at the send attempt,
\* right after what the store held then, whatever the transmission does: it
\* is in the store when the send threw or transmitted nothing, and a send
\* that threw has surfaced an error and transmitted nothing.
C12_OptimisticAppend ==
  (mounted /\ lastSend.n > 0) =>
    /\ Len(messages) > lastSend.storeBefore
    /\ messages[lastSend.storeBefore + 1]
         = UserMessage(lastSend.text, lastSend.lang, lastSend.at)
    /\ lastSend.threw => lastSend.errorShown /\ ~lastSend.transmitted

\* C12 witness: a send threw on a connection still connecting; the entry is
\* in the store and the error is shown.
C12_Witness ==
  /\ mounted /\ lastSend.n > 0 /\ lastSend.threw
  /\ messages[Len(messages)].type = "user"
  /\ messages[Len(messages)].content = "hi"
  /\ wsError = "Failed to send message"

\* the frame handed to ws.onmessage by the step, if the step delivers one
Arrived ==
  delivered'[Len(delivered')].data

\* C13: the step that delivers a frame {type: "error", content} shows the
\* content as the channel error, appends nothing to the store, starts no
\* playback and leaves every connection as it was.
C13_ErrorEventSurfaced ==
  [][ ( /\ mounted /\ Len(delivered') > Len(delivered)
        /\ Arrived.parse = "ok" /\ Arrived.type = "error" )
      => /\ wsError' = Arrived.content
         /\ messages' = messages
         /\ audios' = audios /\ audioPlayerRef' = audioPlayerRef
         /\ conn' = conn /\ mounted' ]_vars

\* C13 witness: an error frame was delivered and shown, and a later frame of
\* the same connection was appended to the store.
C13_Witness ==
  /\ mounted /\ Len(delivered) = 2
  /\ delivered[1].data.type = "error" /\ Mappable(delivered[2].data)
  /\ delivered[1].ws = delivered[2].ws
  /\ conn[delivered[2].ws] = "open"
  /\ messages[Len(messages)].content = delivered[2].data.content

UploadCompletes ==
  Cardinality(uploads') < Cardinality(uploads)

\* the step's onstop called handleSendMessage(data.text) past its early return
Forwarded ==
  UploadCompletes /\ lastSend'.n = lastSend.n + 1

\* C15: the step that forwards extracted text T does what typing T and
\* pressing send in that state does: it appends one user entry with content
\* trim(T) in the session's current source language and transmits the
\* {type: "message"} frame on the session's current connection.
C15_SpeechTextAsTyped ==
  [][ (mounted /\ Forwarded) =>
        /\ messages' = Append(messages,
                               UserMessage(lastSend'.text, selectedLanguage, now))
        /\ wire' = IF SendOutcome(conn[wsInstance]) = "sent"
                     THEN [wire EXCEPT ![wsInstance] =
                             Append(@, OutboundMessage(lastSend'.text, selectedLanguage))]
                     ELSE wire ]_vars

\* C16: a successful response updates the source language to the reported
\* code exactly when it reports a detected language and the auto-detect
\* preference is enabled; otherwise the source language is unchanged.
C16_DetectedLanguageUpdate ==
  [][ (mounted /\ UploadCompletes /\ lastStt'.outcome = "ok") =>
        selectedLanguage' =
          IF lastStt'.detected /\ chatSettings.autoDetectLanguage = "true"
            THEN lastStt'.code
            ELSE selectedLanguage ]_vars

\* C17: the step that handles a failed upload surfaces the error, appends
\* and sends nothing, leaves the connection alone, clears the processing
\* flag and keeps the session mounted.
C17_UploadFailureRecoverable ==
  [][ (mounted /\ UploadCompletes /\ lastStt'.outcome = "fail") =>
        /\ wsError' = "Failed to process voice input"
        /\ messages' = messages /\ wire' = wire /\ lastSend' = lastSend
        /\ conn' = conn /\ wsInstance' = wsInstance
        /\ ~isProcessing' /\ mounted' ]_vars

\* C17 witness: the upload of the first recording failed, and the user has
\* since started a second recording that is now recording.
C17_Witness ==
  /\ mounted /\ lastStt.outcome = "fail" /\ lastStt.calls = 1
  /\ uploads = {} /\ ~isProcessing
  /\ Len(recorders) = 2 /\ recorders[2].state = "recording"
  /\ conn[wsInstance] = "open"

\* C18: the processing flag is true exactly while at least one upload is in
\* flight.
C18_ProcessingWhileUploading ==
  mounted => (isProcessing <=> uploads # {})

\* the recording attempts whose microphone request is rejected by the step
DeniedNow ==
  {k \in 1..Len(recorders) :
     recorders[k].state = "acquiring" /\ recorders'[k].state = "denied"}

\* C19: the step in which microphone acquisition fails surfaces the device
\* error and leaves the recording flag false; it creates no recorder, stream
\* or silence detector, and leaves the channel, the store and the text input
\* as they were.
C19_DeviceErrorFatalToAttemptOnly ==
  [][ (mounted /\ DeniedNow # {}) =>
        /\ wsError' = "Failed to access microphone"
        /\ ~isRecording'
        /\ \A k \in DeniedNow : detectors'[k].ctx = "none"
        /\ detectors' = detectors /\ streams' = streams
        /\ mediaRecorderRef' = mediaRecorderRef
        /\ \A k \in 1..Len(recorders) : k \notin DeniedNow => recorders'[k] = recorders[k]
        /\ conn' = conn /\ wsInstance' = wsInstance /\ wire' = wire
        /\ messages' = messages /\ inputMessage' = inputMessage
        /\ mounted' ]_vars

\* C19 witness: the first attempt was denied, its error is shown, and the
\* connection it left alone is open.
C19_Witness ==
  /\ mounted /\ Len(recorders) >= 1 /\ recorders[1].state = "denied"
  /\ wsError = "Failed to access microphone"
  /\ ~isRecording /\ streams = {} /\ mediaRecorderRef = 0
  /\ conn[wsInstance] = "open"

\* the readyState changes of one connection: the handshake, close(), the end
\* of the closing handshake, and a fault or a close by the server, which
\* both end in CLOSED (before the handshake completes too)
Transitions ==
  { <<"connecting", "open">>, <<"open", "closing">>, <<"closing", "closed">>,
    <<"open", "closed">>, <<"connecting", "closing">>, <<"connecting", "closed">> }

\* C20: every connection only moves along connecting, open, closing, closed
\* (or to its terminal state on a fault) and never leaves closed; a new
\* connection is never created by the step in which a connection closes or
\* fails; and the tracked connection state is open once the transport of the
\* session's connection has opened.
C20_ConnectionStateMachine ==
  [][ /\ \A c \in 1..Len(conn) :
           conn'[c] # conn[c] => <<conn[c], conn'[c]>> \in Transitions
      /\ Len(conn') > Len(conn) =>
           \A c \in 1..Len(conn) : conn'[c] = "closed" => conn[c] = "closed"
      /\ \A c \in 1..Len(conn) :
           (mounted /\ c = EffectWs /\ conn[c] = "connecting" /\ conn'[c] = "open")
             => connectionStatus = "open" ]_vars

\* the init frames transmitted on connection c
InitFrames(c) ==
  {i \in 1..Len(wire[c]) : wire[c][i].type = "init"}

\* C21: on every connection that is open, exactly one init frame has been
\* transmitted, and it is the first frame transmitted on that connection.
C21_InitOnceOnOpen ==
  \A c \in 1..Len(conn) :
    conn[c] = "open" => InitFrames(c) = {1}

\* C22: every step leaves the entries the store already holds in place and
\* unchanged, so the store before the step is a prefix of the store after it;
\* this includes the step that toggles a bubble's 'show original' flag.
C22_StoreAppendOnly ==
  [][ /\ Len(messages') >= Len(messages)
      /\ \A i \in 1..Len(messages) : messages'[i] = messages[i] ]_vars

\* C22 witness: a sent entry and a received entry follow the initial entry,
\* and the bubble of the sent entry shows the original text.
C22_Witness ==
  /\ mounted /\ Len(messages) = 3
  /\ messages[2].type = "user" /\ messages[3].type = "bot"
  /\ 2 \in showOriginal
  /\ displayText(2) = messages[2].originalContent

\* the stored value of a field, or the system default when it is missing
StoredOr(value, missing, default) ==
  IF value = missing THEN default ELSE value

\* the preferences load() is to return for a blob: every field and every
\* sub-field of voice falls back to its default when it is missing
LoadWithDefaults(blob) ==
  [interfaceLanguage |-> StoredOr(blob.interface, "", "en"),
   preferredLanguage |-> StoredOr(blob.preferred, "", "en"),
   autoDetectLanguage |-> StoredOr(blob.autoDetect, "", "true"),
   voice |-> [isSet |-> TRUE,
              enabled |-> StoredOr(blob.voice.enabled, "", "true"),
              gender |-> StoredOr(blob.voice.gender, "", "female"),
              speed |-> StoredOr(blob.voice.speed, 0, 1)]]

\* C23: a session entered with the stored blob loads, in the chat and in the
\* page, the stored value of every field present and the system default of
\* every field missing, the sub-fields of voice included.
C23_LoadFallsBackToDefaults ==
  /\ Effective(ChatLoad(storage, ChatDefaults)) = LoadWithDefaults(storage)
  /\ Effective(PageLoad(storage, PageDefaults)) = LoadWithDefaults(storage)

\* the blob holds every field of the persisted schema
FullBlob(blob) ==
  /\ blob.interface # "" /\ blob.preferred # "" /\ blob.autoDetect # ""
  /\ blob.voice.isSet
  /\ blob.voice.enabled # "" /\ blob.voice.gender # "" /\ blob.voice.speed # 0

\* C24: whatever was written last, the stored blob holds all of interface,
\* preferred, autoDetect and voice {enabled, gender, speed}, and after an
\* update through a handler they hold the handler's new settings.
C24_NeverPartiallyPersisted ==
  storage.present =>
    /\ FullBlob(storage)
    /\ lastUpdate.made =>
         /\ storage.interface = lastUpdate.expected.interfaceLanguage
         /\ storage.preferred = lastUpdate.expected.preferredLanguage
         /\ storage.autoDetect = lastUpdate.expected.autoDetectLanguage
         /\ storage.voice = lastUpdate.expected.voice

\* C25: once a recording has been stopped, its silence-detection loop is no
\* longer running, and its onSilence callback was only ever invoked while
\* that recording was still recording; a stop removes no upload in flight.
C25_StopCancelsDetection ==
  /\ \A k \in 1..Len(recorders) :
       recorders[k].state = "inactive" => detectors[k].ctx # "running"
  /\ \A s \in autoStops : s.own = "recording"
  /\ \A k \in uploads : recorders[k].stopEvent = "handled"

\* C28: an onSilence invocation of the detector of recording k made after
\* recording k has ended stops no recording.
C28_DetectorStopsOwnRecording ==
  \A s \in autoStops : s.own # "recording" => s.recorder = 0

\* C26: when the platform rejects a playback the rejection is caught and shown
\* to the user as an error: the frame that carried the audio is still
\* appended, the connection is untouched and an error is displayed; and no
\* rejected play() promise of the player of the bubble is left without a
\* handler
C26_PlaybackRejectionSurfaced ==
  [][/\ (/\ Len(audios') = Len(audios) + 1
         /\ audios'[Len(audios')] = "blocked")
        => (/\ Len(messages') = Len(messages) + 1
            /\ conn' = conn
            /\ wsError' # "")
     /\ ~acUnhandled']_vars

\* C29: as long as no play() was rejected, after every step the isPlaying flag
\* of the player is true exactly when its element plays; a step that changes
\* the volume or the speed leaves the element as it was; and when the element
\* reaches the end of its stream the position is zero and the flag false
C29_PlayingMatchesElement ==
  [][~acUnhandled' =>
       /\ acPlaying' <=> (acElement' = "playing")
       /\ (acVolume' # acVolume \/ acSpeed' # acSpeed) => acElement' = acElement
       /\ (acElement = "playing" /\ acElement' = "ended")
            => (acCurrentTime' = 0 /\ ~acPlaying')]_vars

\* C30: the loading flag of the consultation slice is true exactly while at
\* least one startConsultation or getConsultationStatus request is in flight
C30_LoadingWhileInFlight ==
  loading <=> (InFlight > 0)

\* C27: the protected page of consultation id X is rendered only after a
\* status query for X returned "active" since the route was entered; with no
\* stored id the page is not rendered; and after a query that returned another
\* status or failed the user is at home and the stored id is removed
C27_GatedByStatusOfRouteId ==
  /\ (routeId # 0 /\ ~isChecking) => routeId \in activeSeen
  /\ storedId = 0 => ~(routeId # 0 /\ ~isChecking)
  /\ lastCheck \in {"other", "failed"} => (routeId = 0 /\ storedId = 0)
====
